---- MODULE Spec2Model ----
(***************************************************************************)
(* Petri net core of bmo1177/vfdtp1: the Place / Transition / PetriNet     *)
(* data model of petrinetsimple.py and tp101.py (identical in both files)  *)
(* and the PetriNetAnalyzer of tp1test.py.                                 *)
(*                                                                         *)
(* Python dicts are insertion-ordered: a dict is modelled as a sequence of *)
(* <<key, value>> pairs with pairwise distinct keys.                       *)
(***************************************************************************)
EXTENDS Integers, Sequences, FiniteSets, TLC

(***************************************************************************)
(* Bounds of the model.                                                    *)
(***************************************************************************)
MaxArcs == 2        \* longest PetriNet.arcs list explored
MaxArcLen == 2      \* longest arcs list passed to load_network
MaxFileLines == 2   \* longest file enumerated line by line

\* node names passed to the PetriNet calls; either may be declared a place,
\* a transition, or both
Names == {"p1", "t1"}
\* token counts and weights an unconstrained client passes
TokenVals == {0 - 1, 0, 1}
WeightVals == {0, 1, 2}
\* token counts and weights passed when the queries are explored
QueryTokenVals == {0, 1}
QueryWeightVals == {1, 2}

\* all sequences over S of length at most n
SeqUpTo(S, n) == UNION {[1..k -> S] : k \in 0..n}

\* arguments of load_network: lists of names, a list of (src, dest) pairs,
\* and a dict from names to the text of a token count
PlaceLists == {<<"p1">>, <<"p2", "p1", "p2">>}
TransitionLists == {<<>>, <<"t1">>, <<"t1", "t2">>}
ArcPool == {<<"p1", "t1">>, <<"t1", "p2">>, <<"p2 ", " t1">>, <<"p2", "t2">>}
ArcLists == SeqUpTo(ArcPool, MaxArcLen)
MarkingDicts ==
    {<<>>, <<<<"p1", "1">>>>, <<<<"p1", "-1">>>>,
     <<<<"p1", "1">>, <<" p2", " 1">>>>, <<<<" p2", "2">>, <<"p1", "0">>>>}

\* arguments of load_network when its failures are explored: arcs and
\* marking entries that name undeclared nodes, and the text of a token
\* count that is no integer
LoadArcLists ==
    {<<>>,
     << <<"p1", "t1">> >>,
     << <<"p1", "t1">>, <<"t1", "p2">> >>,
     << <<"p1", "t1">>, <<"q", "r">>, <<"r", "t1">> >>}
LoadMarkingDicts ==
    {<<>>,
     << <<"p1", "1">> >>,
     << <<" p2", "1">>, <<"q", "0">> >>,
     << <<"p1", "1">>, <<" p2", "x">> >>}

\* contents of the four fields of the application's form, as split by
\* generate_network: segments with and without blanks after the commas,
\* an arc segment without '->', a marking segment without '=', a token
\* count that is no integer
FormPlaces == {<<"p1">>, <<"p1", " p2">>, <<"p2", "p1">>}
FormTransitions == {<<>>, <<"t1">>, <<"t1", " t2">>}
FormArcs ==
    {<<>>,
     << <<"p1", "t1">> >>,
     << <<"p1", "t1">>, <<"t1", "p2">> >>,
     << <<"p1", "t1">>, <<"t1 p2">> >>,
     << <<"p2 ", " t1">>, <<"p1", "t1">> >>}
FormMarkings ==
    {<<>>,
     << <<"p1", "1">> >>,
     << <<"p1", "1">>, <<" p2", "2">> >>,
     << <<"p2", "2">>, <<"p1", "0">> >>,
     << <<"p1", "x">> >>,
     << <<"p1", "1">>, <<"p2">> >>}

\* bipartite nets with unit weights and non-negative markings, in the form
\* both programs take them: name lists, (source, target) pairs and
\* name=count entries.  Among them transitions without input arcs, with and
\* without output arcs.
BipartiteMarkings ==
    {<< <<"p1", a>>, <<"p2", b>> >> : a \in {"0", "1"}, b \in {"0", "1"}}
BipartiteNetworks ==
    ({<<"p1", "p2">>} \X {<<"t1">>}
        \X {<< <<"p1", "t1">>, <<"t1", "p2">> >>,
            << <<"t1", "p2">> >>}
        \X BipartiteMarkings)
    \cup
    ({<<"p1", "p2">>} \X {<<"t1", "t2">>}
        \X {<<>>,
            << <<"p1", "t1">>, <<"p2", "t1">> >>,
            << <<"p1", "t1">>, <<"t1", "p2">>, <<"t2", "p1">> >>,
            << <<"p1", "t1">>, <<"p2", "t2">> >>}
        \X BipartiteMarkings)

\* lines of a net file, as line.strip().split() returns them: PLACE lines
\* with and without a 4th token, a blank line, a line with another leading
\* token
FileLines ==
    {<<"PLACE", "p1", "0", "1">>,
     <<"PLACE", "p2", "2">>,
     <<"PLACE", "p1", "0", "2", "9">>,
     <<"TRANSITION", "t1">>,
     <<"ARC", "p1", "t1">>,
     <<"ARC", "t1", "p2", "2">>,
     <<>>,
     <<"NODE", "p2">>}

\* two whole nets
WholeFiles ==
    {<< <<"PLACE", "p1", "0", "1">>, <<"PLACE", "p2", "0", "2">>,
        <<"TRANSITION", "t1">>, <<"ARC", "p1", "t1">>,
        <<"ARC", "t1", "p2", "2">> >>,
     << <<"PLACE", "p1", "0", "1">>, <<"PLACE", "p2">>, <<>>,
        <<"TRANSITION", "t1">>, <<"ARC", "p1", "t1">>,
        <<"ARC", "t1", "p2">> >>}

\* files the loader fails on: an ARC line without target, a token count
\* and a weight that are no integers, a PLACE line without name
BrokenFiles ==
    {<< <<"PLACE", "p1", "0", "1">>, <<"ARC", "p1">>, <<"TRANSITION", "t1">> >>,
     << <<"TRANSITION", "t1">>, <<"PLACE", "p2", "0", "x">> >>,
     << <<"ARC", "p1", "t1", "x">> >>,
     << <<"PLACE">> >>}

\* the files: every file of up to MaxFileLines lines of FileLines, the whole
\* nets and the broken files
FileInputs == SeqUpTo(FileLines, MaxFileLines) \cup WholeFiles \cup BrokenFiles

\* the network of the end-to-end scenario: places p1,p2,p3; transitions
\* t1,t2; arcs p1->t1, t1->p2, p2->t2; marking p1=1, p2=0, p3=2
ScenarioNetwork ==
    << <<"p1", "p2", "p3">>, <<"t1", "t2">>,
       << <<"p1", "t1">>, <<"t1", "p2">>, <<"p2", "t2">> >>,
       << <<"p1", "1">>, <<"p2", "0">>, <<"p3", "2">> >> >>

VARIABLES petri_net, analyzer, ret, form

vars == <<petri_net, analyzer, ret, form>>

(***************************************************************************)
(* dict helpers                                                            *)
(***************************************************************************)
Range(s) == {s[i] : i \in 1..Len(s)}

\* d.keys()
DictKeys(d) == {d[i][1] : i \in 1..Len(d)}

\* k in d
HasKey(d, k) == \E i \in 1..Len(d) : d[i][1] = k

\* d[k]  (used only where k in d)
DictGet(d, k) == d[CHOOSE i \in 1..Len(d) : d[i][1] = k][2]

\* d[k] = v : an existing key keeps its position, a new key goes last
DictSet(d, k, v) ==
    IF HasKey(d, k)
    THEN [i \in 1..Len(d) |-> IF d[i][1] = k THEN <<k, v>> ELSE d[i]]
    ELSE Append(d, <<k, v>>)

\* no exception: the call returned
NoError == <<>>

(***************************************************************************)
(* class Transition                                                        *)
(***************************************************************************)
\* Transition.__init__
NewTransition == [input_arcs |-> <<>>, output_arcs |-> <<>>]

\* Transition.add_input_arc(place, weight); place.name is the place's key
add_input_arc(t, place_name, weight) ==
    [t EXCEPT !.input_arcs = DictSet(@, place_name, weight)]

\* Transition.add_output_arc(place, weight)
add_output_arc(t, place_name, weight) ==
    [t EXCEPT !.output_arcs = DictSet(@, place_name, weight)]

\* the generator of is_enabled with the test tokens > weight
RECURSIVE all_tokens_gt_weight(_, _)
all_tokens_gt_weight(items, places) ==
    IF items = <<>> THEN [raised |-> NoError, val |-> TRUE]
    ELSE LET name == items[1][1]
             weight == items[1][2]
         IN  IF ~HasKey(places, name)
             THEN [raised |-> <<"KeyError", name>>, val |-> FALSE]
             ELSE IF DictGet(places, name) > weight
                  THEN all_tokens_gt_weight(Tail(items), places)
                  ELSE [raised |-> NoError, val |-> FALSE]

\* the generator inside all(...) of Transition.is_enabled, consumed in dict
\* order and stopped at the first false element; places[name] raises
\* KeyError for a missing name
RECURSIVE all_tokens_ge_weight(_, _)
all_tokens_ge_weight(items, places) ==
    IF items = <<>> THEN [raised |-> NoError, val |-> TRUE]
    ELSE LET name == items[1][1]
             weight == items[1][2]
         IN  IF ~HasKey(places, name)
             THEN [raised |-> <<"KeyError", name>>, val |-> FALSE]
             ELSE IF DictGet(places, name) >= weight
                  THEN all_tokens_ge_weight(Tail(items), places)
                  ELSE [raised |-> NoError, val |-> FALSE]

\* is_enabled with the weights ignored: every input place holds a token
is_enabled_ignoring_weight(t, places) ==
    all_tokens_ge_weight([i \in 1..Len(t.input_arcs) |-> <<t.input_arcs[i][1], 1>>],
                         places)

\* Transition.is_enabled(places)
is_enabled(t, places) == all_tokens_ge_weight(t.input_arcs, places)

(***************************************************************************)
(* class PetriNet                                                          *)
(***************************************************************************)
\* PetriNet.__init__
NewPetriNet == [places |-> <<>>, transitions |-> <<>>, arcs |-> <<>>, pos |-> {}]

\* PetriNet.add_place(name, tokens); pos holds the names that have a layout
\* position (the position itself is random and carries no meaning)
add_place(net, name, tokens) ==
    [net EXCEPT !.places = DictSet(@, name, tokens),
                !.pos = @ \cup {name}]

\* PetriNet.add_transition(name)
add_transition(net, name) ==
    [net EXCEPT !.transitions = DictSet(@, name, NewTransition),
                !.pos = @ \cup {name}]

\* add_arc that takes any source of an arc into a transition for a place
add_arc_any_source(net, source, target, weight) ==
    LET appended == [net EXCEPT !.arcs = Append(@, <<source, target, weight>>)]
    IN  IF HasKey(net.transitions, target)
        THEN [appended EXCEPT !.transitions =
                 DictSet(@, target,
                         add_input_arc(DictGet(@, target), source, weight))]
        ELSE IF HasKey(net.transitions, source) /\ HasKey(net.places, target)
        THEN [appended EXCEPT !.transitions =
                 DictSet(@, source,
                         add_output_arc(DictGet(@, source), target, weight))]
        ELSE appended

\* add_arc that keeps an arc only if its direction is valid
add_arc_valid_only(net, source, target, weight) ==
    LET appended == [net EXCEPT !.arcs = Append(@, <<source, target, weight>>)]
    IN  IF HasKey(net.places, source) /\ HasKey(net.transitions, target)
        THEN [appended EXCEPT !.transitions =
                 DictSet(@, target,
                         add_input_arc(DictGet(@, target), source, weight))]
        ELSE IF HasKey(net.transitions, source) /\ HasKey(net.places, target)
        THEN [appended EXCEPT !.transitions =
                 DictSet(@, source,
                         add_output_arc(DictGet(@, source), target, weight))]
        ELSE net

\* PetriNet.add_arc(source, target, weight)
add_arc(net, source, target, weight) ==
    LET appended == [net EXCEPT !.arcs = Append(@, <<source, target, weight>>)]
    IN  IF HasKey(net.places, source) /\ HasKey(net.transitions, target)
        THEN [appended EXCEPT !.transitions =
                 DictSet(@, target,
                         add_input_arc(DictGet(@, target), source, weight))]
        ELSE IF HasKey(net.transitions, source) /\ HasKey(net.places, target)
        THEN [appended EXCEPT !.transitions =
                 DictSet(@, source,
                         add_output_arc(DictGet(@, source), target, weight))]
        ELSE appended

\* the generator inside all(...) of PetriNet.is_bounded
RECURSIVE all_tokens_nonneg(_)
all_tokens_nonneg(items) ==
    IF items = <<>> THEN TRUE
    ELSE IF items[1][2] >= 0 THEN all_tokens_nonneg(Tail(items)) ELSE FALSE

\* PetriNet.is_bounded()
is_bounded(net) == [raised |-> NoError, val |-> all_tokens_nonneg(net.places)]

\* the generator inside any(...) of PetriNet.has_live_transitions, consumed
\* in dict order and stopped at the first true element
RECURSIVE any_enabled(_, _)
any_enabled(items, places) ==
    IF items = <<>> THEN [raised |-> NoError, val |-> FALSE]
    ELSE LET r == is_enabled(items[1][2], places)
         IN  IF r.raised # NoError THEN r
             ELSE IF r.val THEN r
             ELSE any_enabled(Tail(items), places)

\* has_live_transitions that looks at the first transition only
has_live_transitions_first_only(net) ==
    IF net.transitions = <<>> THEN [raised |-> NoError, val |-> FALSE]
    ELSE is_enabled(net.transitions[1][2], net.places)

\* PetriNet.has_live_transitions()
has_live_transitions(net) == any_enabled(net.transitions, net.places)

(***************************************************************************)
(* class PetriNetAnalyzer                                                  *)
(***************************************************************************)
\* str.strip() on the strings the model passes in: a name, possibly padded
\* with blanks on either side
Strip(s) ==
    CASE s = "p1 " -> "p1"
      [] s = " p1" -> "p1"
      [] s = "p2 " -> "p2"
      [] s = " p2" -> "p2"
      [] s = " t1" -> "t1"
      [] s = "t1 " -> "t1"
      [] s = " t2" -> "t2"
      [] OTHER -> s

\* the strings int() accepts, among those the model passes in (int() skips
\* surrounding blanks)
IsIntLiteral(v) == v \in {"0", "1", "2", " 1", "-1"}

\* int(v) for such a string
int(v) ==
    CASE v = "0" -> 0
      [] v = "1" -> 1
      [] v = " 1" -> 1
      [] v = "2" -> 2
      [] v = "-1" -> 0 - 1

\* nx.DiGraph(): node -> node_type attribute, and the set of edges
NewGraph == [nodes |-> <<>>, edges |-> {}]

\* PetriNetAnalyzer.__init__
NewAnalyzer ==
    [places |-> {}, transitions |-> {}, arcs |-> <<>>, marking |-> <<>>,
     graph |-> NewGraph]

\* [(src.strip(), dest.strip()) for src, dest in arcs]
strip_arcs(arcs) == [i \in 1..Len(arcs) |-> <<Strip(arcs[i][1]), Strip(arcs[i][2])>>]

\* {p.strip(): int(v) for p, v in marking.items()}: the dict built so far,
\* or the ValueError of the first value int() rejects
RECURSIVE parse_marking(_, _)
parse_marking(items, acc) ==
    IF items = <<>> THEN [raised |-> NoError, val |-> acc]
    ELSE IF ~IsIntLiteral(items[1][2])
         THEN [raised |-> <<"ValueError", "invalid literal for int()", items[1][2]>>,
               val |-> <<>>]
         ELSE parse_marking(Tail(items),
                            DictSet(acc, Strip(items[1][1]), int(items[1][2])))

\* first loop of _validate_network: the error of the first arc, in list
\* order, with an undeclared source or destination
RECURSIVE validate_arcs(_, _)
validate_arcs(arcs, an) ==
    IF arcs = <<>> THEN NoError
    ELSE LET src == arcs[1][1]
             dest == arcs[1][2]
         IN  IF src \notin an.places /\ src \notin an.transitions
             THEN <<"ValueError", "Invalid source node in arc", src>>
             ELSE IF dest \notin an.places /\ dest \notin an.transitions
             THEN <<"ValueError", "Invalid destination node in arc", dest>>
             ELSE validate_arcs(Tail(arcs), an)

\* second loop of _validate_network: the first marking key, in dict order,
\* that is no declared place
RECURSIVE validate_marking(_, _)
validate_marking(items, an) ==
    IF items = <<>> THEN NoError
    ELSE IF items[1][1] \notin an.places
         THEN <<"ValueError", "Marking specified for non-existent place", items[1][1]>>
         ELSE validate_marking(Tail(items), an)

\* _validate_network with the two loops in the other order
_validate_network_marking_first(an) ==
    LET e == validate_marking(an.marking, an)
    IN  IF e # NoError THEN e ELSE validate_arcs(an.arcs, an)

\* PetriNetAnalyzer._validate_network
_validate_network(an) ==
    LET e == validate_arcs(an.arcs, an)
    IN  IF e # NoError THEN e ELSE validate_marking(an.marking, an)

\* PetriNetAnalyzer._build_graph: a node declared both as a place and as a
\* transition keeps the attributes written last
_build_graph(an) ==
    [an EXCEPT !.graph =
        [nodes |-> [n \in an.places \cup an.transitions |->
                       IF n \in an.transitions THEN "transition" ELSE "place"],
         edges |-> Range(an.arcs)]]

\* PetriNetAnalyzer.load_network: the analyzer after the call, and what the
\* call raised; every field assigned before the raise keeps its new value
load_network(an, places, transitions, arcs, marking) ==
    LET a3 == [an EXCEPT !.places = Range(places), !.transitions = Range(transitions),
                         !.arcs = strip_arcs(arcs)]
        m == parse_marking(marking, <<>>)
        a4 == [a3 EXCEPT !.marking = m.val]
        e == _validate_network(a4)
    IN  IF m.raised # NoError THEN [raised |-> m.raised, an |-> a3]
        ELSE IF e # NoError THEN [raised |-> e, an |-> a4]
        ELSE [raised |-> NoError, an |-> _build_graph(a4)]

\* self.marking.get(p, 0)
marking_get(an, p) == IF HasKey(an.marking, p) THEN DictGet(an.marking, p) ELSE 0

\* {src for src, dest in self.arcs if dest == t}
inputs_of(an, t) == {a[1] : a \in {b \in Range(an.arcs) : b[2] = t}}

\* {dest for src, dest in self.arcs if src == t}
outputs_of(an, t) == {a[2] : a \in {b \in Range(an.arcs) : b[1] = t}}

\* live_count without the test for an output place
RECURSIVE live_count_inputs_only(_, _)
live_count_inputs_only(ts, an) ==
    IF ts = {} THEN 0
    ELSE LET t == CHOOSE x \in ts : TRUE
             inputs == inputs_of(an, t)
             live == /\ inputs # {}
                     /\ \A p \in inputs : marking_get(an, p) > 0
         IN  (IF live THEN 1 ELSE 0) + live_count_inputs_only(ts \ {t}, an)

\* the loop of analyze_liveness without the test of the marking
RECURSIVE live_count_unmarked(_, _)
live_count_unmarked(ts, an) ==
    IF ts = {} THEN 0
    ELSE LET t == CHOOSE x \in ts : TRUE
             live == inputs_of(an, t) # {} /\ outputs_of(an, t) # {}
         IN  (IF live THEN 1 ELSE 0) + live_count_unmarked(ts \ {t}, an)

\* the loop of analyze_liveness over the transitions not yet visited (a set:
\* the order of the visit does not change the count)
RECURSIVE live_count(_, _)
live_count(ts, an) ==
    IF ts = {} THEN 0
    ELSE LET t == CHOOSE x \in ts : TRUE
             inputs == inputs_of(an, t)
             outputs == outputs_of(an, t)
             live == /\ inputs # {}
                     /\ outputs # {}
                     /\ \A p \in inputs : marking_get(an, p) > 0
         IN  (IF live THEN 1 ELSE 0) + live_count(ts \ {t}, an)

\* greatest common divisor, for the value of a float quotient of two ints
RECURSIVE gcd(_, _)
gcd(a, b) == IF b = 0 THEN a ELSE gcd(b, a % b)

\* n / d as a float: two quotients are the same float iff they are the same
\* fraction in lowest terms
float_div(n, d) == <<n \div gcd(n, d), d \div gcd(n, d)>>

\* the float 0.0
float_zero == <<0, 1>>

\* PetriNetAnalyzer.analyze_liveness
analyze_liveness(an) ==
    IF an.transitions # {}
    THEN float_div(live_count(an.transitions, an), Cardinality(an.transitions))
    ELSE float_zero

\* [src for src, dest in self.arcs if dest == t]
RECURSIVE inputs_list(_, _)
inputs_list(arcs, t) ==
    IF arcs = <<>> THEN <<>>
    ELSE (IF arcs[1][2] = t THEN <<arcs[1][1]>> ELSE <<>>) \o inputs_list(Tail(arcs), t)

\* the orders in which a Python set with the elements of S can be iterated:
\* the order of a set of str follows the strings' hashes, which are salted
\* anew in every process
IterationOrders(S) ==
    {o \in [1..Cardinality(S) -> S] : \A i, j \in 1..Cardinality(S) : o[i] = o[j] => i = j}

\* the loop of get_enabled_transitions without the test for an input
RECURSIVE enabled_in_order_vacuous(_, _)
enabled_in_order_vacuous(order, an) ==
    IF order = <<>> THEN <<>>
    ELSE LET t == order[1]
             inputs == inputs_list(an.arcs, t)
             en == \A i \in 1..Len(inputs) : marking_get(an, inputs[i]) > 0
         IN  (IF en THEN <<t>> ELSE <<>>) \o enabled_in_order_vacuous(Tail(order), an)

\* the loop of get_enabled_transitions with a test of >= 0 tokens
RECURSIVE enabled_in_order_nonneg(_, _)
enabled_in_order_nonneg(order, an) ==
    IF order = <<>> THEN <<>>
    ELSE LET t == order[1]
             inputs == inputs_list(an.arcs, t)
             en == /\ inputs # <<>>
                   /\ \A i \in 1..Len(inputs) : marking_get(an, inputs[i]) >= 0
         IN  (IF en THEN <<t>> ELSE <<>>) \o enabled_in_order_nonneg(Tail(order), an)

\* the loop of get_enabled_transitions over the transitions in the order
\* the set yields them
RECURSIVE enabled_in_order(_, _)
enabled_in_order(order, an) ==
    IF order = <<>> THEN <<>>
    ELSE LET t == order[1]
             inputs == inputs_list(an.arcs, t)
             en == /\ inputs # <<>>
                   /\ \A i \in 1..Len(inputs) : marking_get(an, inputs[i]) > 0
         IN  (IF en THEN <<t>> ELSE <<>>) \o enabled_in_order(Tail(order), an)

\* PetriNetAnalyzer.get_enabled_transitions, for one iteration order of
\* self.transitions
get_enabled_transitions(an, order) == enabled_in_order(order, an)

\* PetriNetAnalyzer.analyze_boundedness (every marking value is an int)
analyze_boundedness(an) == \A i \in 1..Len(an.marking) : an.marking[i][2] >= 0

(***************************************************************************)
(* class PetriNetApp: the form of the application.  A field is modelled by *)
(* what the handler splits it into: the Places and Transitions fields by   *)
(* their comma-separated segments, an Arcs segment by the parts            *)
(* arc.strip().split('->') yields, a Markings segment by the parts         *)
(* m.split('=') yields.  An empty field is the empty sequence.             *)
(***************************************************************************)
\* dict(m.split('=') for m in marking_input.split(',')): every element must
\* have two parts; the keys are kept as they are, blanks included
RECURSIVE dict_of_parts(_, _)
dict_of_parts(segs, acc) ==
    IF segs = <<>> THEN [raised |-> NoError, val |-> acc]
    ELSE IF Len(segs[1]) # 2
    THEN [raised |-> <<"ValueError", "dictionary update sequence element has length", "">>,
          val |-> acc]
    ELSE dict_of_parts(Tail(segs), DictSet(acc, segs[1][1], segs[1][2]))

\* the loop over places_input.split(','): name = place.strip();
\* tokens = int(markings.get(name, 0)); add_place(name, tokens)
RECURSIVE add_places(_, _, _)
add_places(segs, markings, net) ==
    IF segs = <<>> THEN [raised |-> NoError, net |-> net]
    ELSE LET name == Strip(segs[1])
         IN  IF HasKey(markings, name) /\ ~IsIntLiteral(DictGet(markings, name))
             THEN [raised |-> <<"ValueError", "invalid literal for int()",
                                DictGet(markings, name)>>,
                   net |-> net]
             ELSE add_places(Tail(segs), markings,
                             add_place(net, name,
                                       IF HasKey(markings, name)
                                       THEN int(DictGet(markings, name)) ELSE 0))

\* the loop over transitions_input.split(',')
RECURSIVE add_transitions(_, _)
add_transitions(segs, net) ==
    IF segs = <<>> THEN net
    ELSE add_transitions(Tail(segs), add_transition(net, Strip(segs[1])))

\* the loop over arcs_input.split(','): src, dst = arc.strip().split('->');
\* add_arc(src.strip(), dst.strip()) with the default weight
RECURSIVE add_arcs(_, _)
add_arcs(segs, net) ==
    IF segs = <<>> THEN [raised |-> NoError, net |-> net]
    ELSE IF Len(segs[1]) # 2
    THEN [raised |-> <<"ValueError", "values to unpack", "">>, net |-> net]
    ELSE add_arcs(Tail(segs), add_arc(net, Strip(segs[1][1]), Strip(segs[1][2]), 1))

\* PetriNetApp.generate_network: [raised, net], net being what
\* self.petri_net is when the handler returns
generate_network(fields) ==
    LET m == dict_of_parts(fields[4], <<>>)
    IN  IF m.raised # NoError THEN [raised |-> m.raised, net |-> NewPetriNet]
        ELSE LET p == add_places(fields[1], m.val, NewPetriNet)
             IN  IF p.raised # NoError THEN p
                 ELSE add_arcs(fields[3], add_transitions(fields[2], p.net))

\* " " + s for the names the model uses: what follows the comma of ", "
Pad(s) ==
    CASE s = "p1" -> " p1"
      [] s = "p2" -> " p2"
      [] s = "t1" -> " t1"
      [] s = "t2" -> " t2"

\* str(n) of a token count
Str(n) ==
    CASE n = 0 -> "0"
      [] n = 1 -> "1"
      [] n = 2 -> "2"
      [] n = 0 - 1 -> "-1"

\* the i-th element of ", ".join(...) as split(',') returns it
Segment(i, s) == IF i = 1 THEN s ELSE Pad(s)

\* PetriNetApp._update_form_fields: the fields as generate_network will
\* split them.  An arc is written src->dst, without its weight; the blank
\* in front of an arc segment is removed by arc.strip() before the split
\* at '->'.
_update_form_fields(net) ==
    << [i \in 1..Len(net.places) |-> Segment(i, net.places[i][1])],
       [i \in 1..Len(net.transitions) |-> Segment(i, net.transitions[i][1])],
       [i \in 1..Len(net.arcs) |-> <<net.arcs[i][1], net.arcs[i][2]>>],
       [i \in 1..Len(net.places) |->
           <<Segment(i, net.places[i][1]), Str(net.places[i][2])>>] >>

\* the loop of load_net_file with the token count read only from a line of
\* exactly four tokens
RECURSIVE load_lines_exactly_four(_, _)
load_lines_exactly_four(lines, net) ==
    IF lines = <<>> THEN [raised |-> NoError, net |-> net]
    ELSE LET parts == lines[1]
         IN  IF parts = <<>> THEN load_lines_exactly_four(Tail(lines), net)
             ELSE IF parts[1] = "PLACE"
             THEN IF Len(parts) < 2
                  THEN [raised |-> <<"IndexError", "list index out of range", "">>,
                        net |-> net]
                  ELSE IF Len(parts) > 3 /\ ~IsIntLiteral(parts[4])
                  THEN [raised |-> <<"ValueError", "invalid literal for int()", parts[4]>>,
                        net |-> net]
                  ELSE load_lines_exactly_four(Tail(lines),
                                  add_place(net, parts[2],
                                            IF Len(parts) = 4 THEN int(parts[4]) ELSE 0))
             ELSE IF parts[1] = "TRANSITION"
             THEN IF Len(parts) < 2
                  THEN [raised |-> <<"IndexError", "list index out of range", "">>,
                        net |-> net]
                  ELSE load_lines_exactly_four(Tail(lines), add_transition(net, parts[2]))
             ELSE IF parts[1] = "ARC"
             THEN IF Len(parts) < 3
                  THEN [raised |-> <<"IndexError", "list index out of range", "">>,
                        net |-> net]
                  ELSE IF Len(parts) > 3 /\ ~IsIntLiteral(parts[4])
                  THEN [raised |-> <<"ValueError", "invalid literal for int()", parts[4]>>,
                        net |-> net]
                  ELSE load_lines_exactly_four(Tail(lines),
                                  add_arc(net, parts[2], parts[3],
                                          IF Len(parts) > 3 THEN int(parts[4]) ELSE 1))
             ELSE load_lines_exactly_four(Tail(lines), net)

\* the loop of load_net_file over the lines of the file; a line is given
\* as parts = line.strip().split().  parts[k] of the code is parts[k + 1]
\* here.
RECURSIVE load_lines(_, _)
load_lines(lines, net) ==
    IF lines = <<>> THEN [raised |-> NoError, net |-> net]
    ELSE LET parts == lines[1]
         IN  IF parts = <<>> THEN load_lines(Tail(lines), net)
             ELSE IF parts[1] = "PLACE"
             THEN IF Len(parts) < 2
                  THEN [raised |-> <<"IndexError", "list index out of range", "">>,
                        net |-> net]
                  ELSE IF Len(parts) > 3 /\ ~IsIntLiteral(parts[4])
                  THEN [raised |-> <<"ValueError", "invalid literal for int()", parts[4]>>,
                        net |-> net]
                  ELSE load_lines(Tail(lines),
                                  add_place(net, parts[2],
                                            IF Len(parts) > 3 THEN int(parts[4]) ELSE 0))
             ELSE IF parts[1] = "TRANSITION"
             THEN IF Len(parts) < 2
                  THEN [raised |-> <<"IndexError", "list index out of range", "">>,
                        net |-> net]
                  ELSE load_lines(Tail(lines), add_transition(net, parts[2]))
             ELSE IF parts[1] = "ARC"
             THEN IF Len(parts) < 3
                  THEN [raised |-> <<"IndexError", "list index out of range", "">>,
                        net |-> net]
                  ELSE IF Len(parts) > 3 /\ ~IsIntLiteral(parts[4])
                  THEN [raised |-> <<"ValueError", "invalid literal for int()", parts[4]>>,
                        net |-> net]
                  ELSE load_lines(Tail(lines),
                                  add_arc(net, parts[2], parts[3],
                                          IF Len(parts) > 3 THEN int(parts[4]) ELSE 1))
             ELSE load_lines(Tail(lines), net)

\* PetriNetApp.load_net_file once a file is chosen: [raised, net]
load_net_file(lines) == load_lines(lines, NewPetriNet)

(***************************************************************************)
(* The calls of a client.  ret is the outcome of the last query: the       *)
(* operation, its argument, what it raised and what it returned.  The      *)
(* construction calls return None.                                         *)
(***************************************************************************)
\* the four entry fields of the application, all empty
EmptyForm == <<<<>>, <<>>, <<>>, <<>>>>

NoRet == [op |-> "", arg |-> "", raised |-> NoError, val |-> FALSE]

Init ==
    /\ petri_net = NewPetriNet
    /\ analyzer = NewAnalyzer
    /\ ret = NoRet
    /\ form = EmptyForm

AddPlace(name, tokens) ==
    /\ petri_net' = add_place(petri_net, name, tokens)
    /\ ret' = NoRet
    /\ UNCHANGED <<analyzer, form>>

AddTransition(name) ==
    /\ petri_net' = add_transition(petri_net, name)
    /\ ret' = NoRet
    /\ UNCHANGED <<analyzer, form>>

AddArc(source, target, weight) ==
    /\ Len(petri_net.arcs) < MaxArcs
    /\ petri_net' = add_arc(petri_net, source, target, weight)
    /\ ret' = NoRet
    /\ UNCHANGED <<analyzer, form>>

IsEnabled(name) ==
    /\ HasKey(petri_net.transitions, name)
    /\ LET r == is_enabled(DictGet(petri_net.transitions, name), petri_net.places)
       IN  ret' = [op |-> "is_enabled", arg |-> name,
                   raised |-> r.raised, val |-> r.val]
    /\ UNCHANGED <<petri_net, analyzer, form>>

IsBounded ==
    /\ LET r == is_bounded(petri_net)
       IN  ret' = [op |-> "is_bounded", arg |-> "",
                   raised |-> r.raised, val |-> r.val]
    /\ UNCHANGED <<petri_net, analyzer, form>>

HasLiveTransitions ==
    /\ LET r == has_live_transitions(petri_net)
       IN  ret' = [op |-> "has_live_transitions", arg |-> "",
                   raised |-> r.raised, val |-> r.val]
    /\ UNCHANGED <<petri_net, analyzer, form>>

\* construction of a net by an unconstrained client
Next ==
    \/ \E name \in Names, tokens \in TokenVals : AddPlace(name, tokens)
    \/ \E name \in Names : AddTransition(name)
    \/ \E source \in Names, target \in Names, weight \in WeightVals :
          AddArc(source, target, weight)

Spec == Init /\ [][Next]_vars

\* construction of a net, and the queries on it
NextQuery ==
    \/ \E name \in Names, tokens \in QueryTokenVals : AddPlace(name, tokens)
    \/ \E name \in Names : AddTransition(name)
    \/ \E source \in Names, target \in Names, weight \in QueryWeightVals :
          AddArc(source, target, weight)
    \/ \E name \in Names : IsEnabled(name)
    \/ IsBounded
    \/ HasLiveTransitions

SpecQuery == Init /\ [][NextQuery]_vars

(***************************************************************************)
(* The calls on a PetriNetAnalyzer.                                        *)
(***************************************************************************)
LoadNetwork(places, transitions, arcs, marking) ==
    /\ LET r == load_network(analyzer, places, transitions, arcs, marking)
       IN  /\ analyzer' = r.an
           /\ ret' = [op |-> "load_network",
                      arg |-> <<places, transitions, arcs, marking>>,
                      raised |-> r.raised, val |-> FALSE]
    /\ UNCHANGED <<petri_net, form>>

AnalyzeBoundedness ==
    /\ ret' = [op |-> "analyze_boundedness", arg |-> "",
               raised |-> NoError, val |-> analyze_boundedness(analyzer)]
    /\ UNCHANGED <<petri_net, analyzer, form>>

AnalyzeLiveness ==
    /\ ret' = [op |-> "analyze_liveness", arg |-> "",
               raised |-> NoError, val |-> analyze_liveness(analyzer)]
    /\ UNCHANGED <<petri_net, analyzer, form>>

GetEnabledTransitions ==
    /\ \E order \in IterationOrders(analyzer.transitions) :
          ret' = [op |-> "get_enabled_transitions", arg |-> "",
                  raised |-> NoError, val |-> get_enabled_transitions(analyzer, order)]
    /\ UNCHANGED <<petri_net, analyzer, form>>

\* PetriNetGUI._reset: a fresh analyzer
Reset ==
    /\ analyzer # NewAnalyzer
    /\ analyzer' = NewAnalyzer
    /\ ret' = NoRet
    /\ UNCHANGED <<petri_net, form>>

\* the networks load_network accepts: the queries are made on these
WellFormedNetworks ==
    {n \in (PlaceLists \X TransitionLists \X ArcLists \X MarkingDicts)
            \cup {ScenarioNetwork} :
        load_network(NewAnalyzer, n[1], n[2], n[3], n[4]).raised = NoError}

NextAnalyzer ==
    \/ \E n \in WellFormedNetworks : LoadNetwork(n[1], n[2], n[3], n[4])
    \/ Reset
    \/ AnalyzeBoundedness
    \/ AnalyzeLiveness
    \/ GetEnabledTransitions

SpecAnalyzer == Init /\ [][NextAnalyzer]_vars

\* load_network called with any arguments, ill-formed ones included
LoadInputs == PlaceLists \X TransitionLists \X LoadArcLists \X LoadMarkingDicts

NextLoad ==
    \/ \E n \in LoadInputs : LoadNetwork(n[1], n[2], n[3], n[4])
    \/ Reset

SpecLoad == Init /\ [][NextLoad]_vars

(***************************************************************************)
(* The handlers of the application.                                        *)
(***************************************************************************)
\* Generate that builds onto the net the application holds
GenerateNetworkOnto(fields) ==
    /\ LET m == dict_of_parts(fields[4], <<>>)
           p == add_places(fields[1], m.val, petri_net)
           r == IF m.raised # NoError THEN [raised |-> m.raised, net |-> petri_net]
                ELSE IF p.raised # NoError THEN p
                ELSE add_arcs(fields[3], add_transitions(fields[2], p.net))
       IN  /\ petri_net' = r.net
           /\ ret' = [op |-> "generate_network", arg |-> fields,
                      raised |-> r.raised, val |-> FALSE]
    /\ form' = fields
    /\ UNCHANGED analyzer

\* the user leaves `fields` in the form and presses Generate
GenerateNetwork(fields) ==
    /\ LET r == generate_network(fields)
       IN  /\ petri_net' = r.net
           /\ ret' = [op |-> "generate_network", arg |-> fields,
                      raised |-> r.raised, val |-> FALSE]
    /\ form' = fields
    /\ UNCHANGED analyzer

\* PetriNetApp.reset_model of petrinetsimple.py
ResetModel ==
    /\ petri_net # NewPetriNet
    /\ petri_net' = NewPetriNet
    /\ form' = EmptyForm
    /\ ret' = NoRet
    /\ UNCHANGED analyzer

\* PetriNetApp.reset_model of tp101.py: result is the answer to askyesno
ResetModelConfirm(result) ==
    /\ petri_net' = IF result THEN NewPetriNet ELSE petri_net
    /\ form' = IF result THEN EmptyForm ELSE form
    /\ ret' = [op |-> "reset_model", arg |-> "", raised |-> NoError, val |-> result]
    /\ UNCHANGED analyzer

\* PetriNetApp.load_net_file: chosen is whether the file dialog returned a
\* path, lines the content of the file
LoadNetFile(chosen, lines) ==
    /\ LET r == load_net_file(lines)
       IN  /\ petri_net' = IF chosen THEN r.net ELSE petri_net
           /\ form' = IF chosen /\ r.raised = NoError
                      THEN _update_form_fields(r.net) ELSE form
           /\ ret' = [op |-> "load_net_file", arg |-> IF chosen THEN lines ELSE <<>>,
                      raised |-> IF chosen THEN r.raised ELSE NoError,
                      val |-> chosen]
    /\ UNCHANGED analyzer

\* what the user can leave in the four fields
FormInputs == FormPlaces \X FormTransitions \X FormArcs \X FormMarkings

NextApp ==
    \/ \E fields \in FormInputs : GenerateNetwork(fields)
    \/ ResetModel
    \/ \E result \in BOOLEAN : ResetModelConfirm(result)

SpecApp == Init /\ [][NextApp]_vars

\* the application fed from net files: load a file, generate from the
\* fields as the load left them, reset
NextFile ==
    \/ \E chosen \in BOOLEAN, lines \in FileInputs : LoadNetFile(chosen, lines)
    \/ GenerateNetwork(form)
    \/ \E result \in BOOLEAN : ResetModelConfirm(result)

SpecFile == Init /\ [][NextFile]_vars

(***************************************************************************)
(* A run of either program: a client of PetriNet, or of PetriNetAnalyzer.  *)
(***************************************************************************)
\* The arcs are added with the default weight of add_arc.
NextPrograms ==
    \/ \E name \in Names, tokens \in QueryTokenVals :
          analyzer = NewAnalyzer /\ AddPlace(name, tokens)
    \/ \E name \in Names : analyzer = NewAnalyzer /\ AddTransition(name)
    \/ \E source \in Names, target \in Names :
          analyzer = NewAnalyzer /\ AddArc(source, target, 1)
    \/ \E name \in Names : analyzer = NewAnalyzer /\ IsEnabled(name)
    \/ analyzer = NewAnalyzer /\ IsBounded
    \/ analyzer = NewAnalyzer /\ HasLiveTransitions
    \/ \E n \in WellFormedNetworks :
          petri_net = NewPetriNet /\ LoadNetwork(n[1], n[2], n[3], n[4])
    \/ petri_net = NewPetriNet /\ Reset
    \/ petri_net = NewPetriNet /\ AnalyzeBoundedness
    \/ petri_net = NewPetriNet /\ AnalyzeLiveness
    \/ petri_net = NewPetriNet /\ GetEnabledTransitions

SpecPrograms == Init /\ [][NextPrograms]_vars

(***************************************************************************)
(* The two programs side by side: the application builds its PetriNet from *)
(* the form, the analyzer loads its network, and each is queried.          *)
(***************************************************************************)
NextBoth ==
    \/ \E n \in BipartiteNetworks : GenerateNetwork(n)
    \/ \E n \in BipartiteNetworks : LoadNetwork(n[1], n[2], n[3], n[4])
    \/ \E name \in {"t1", "t2"} : IsEnabled(name)
    \/ HasLiveTransitions
    \/ GetEnabledTransitions
    \/ AnalyzeLiveness

SpecBoth == Init /\ [][NextBoth]_vars

(***************************************************************************)
(* Properties of PetriNet construction (under Spec).                       *)
(***************************************************************************)
\* names declared as a place only, and as a transition only
PlaceOnly(net, n) == HasKey(net.places, n) /\ ~HasKey(net.transitions, n)
TransitionOnly(net, n) == HasKey(net.transitions, n) /\ ~HasKey(net.places, n)

\* C1: add_place(n, ...) on a name that is already a place fails with
\* DuplicateName and leaves the existing place and the rest of the net as
\* they were.
CE_C1_DuplicatePlaceRejected ==
    [][\A name \in Names, tokens \in TokenVals :
          (HasKey(petri_net.places, name) /\ AddPlace(name, tokens))
              => /\ ret'.raised = <<"DuplicateName", name>>
                 /\ petri_net' = petri_net]_vars

\* C2: places and transitions share one namespace: in every reachable state
\* no name is a key of both the places map and the transitions map.
CE_C2_SharedNamespace ==
    DictKeys(petri_net.places) \cap DictKeys(petri_net.transitions) = {}

\* C3: add_arc between two places, or between two transitions, fails with
\* InvalidArc and applies nothing: the arc list keeps its length and the
\* transitions keep their input and output maps.
CE_C3_SameKindArcRejected ==
    [][\A source \in Names, target \in Names, weight \in WeightVals :
          ( /\ \/ PlaceOnly(petri_net, source) /\ PlaceOnly(petri_net, target)
               \/ TransitionOnly(petri_net, source) /\ TransitionOnly(petri_net, target)
            /\ AddArc(source, target, weight) )
              => /\ ret'.raised = <<"InvalidArc">>
                 /\ Len(petri_net'.arcs) = Len(petri_net.arcs)
                 /\ petri_net'.transitions = petri_net.transitions]_vars

\* C4: every entry of the arc list has both endpoints among the declared
\* places and transitions.
CE_C4_ArcEndpointsDeclared ==
    \A i \in 1..Len(petri_net.arcs) :
        LET declared == DictKeys(petri_net.places) \cup DictKeys(petri_net.transitions)
        IN  petri_net.arcs[i][1] \in declared /\ petri_net.arcs[i][2] \in declared

\* the weight of the most recent arc source -> target of the arc list
LastArcWeight(arcs, source, target) ==
    arcs[CHOOSE i \in 1..Len(arcs) :
            /\ arcs[i][1] = source /\ arcs[i][2] = target
            /\ \A j \in (i + 1)..Len(arcs) :
                  ~(arcs[j][1] = source /\ arcs[j][2] = target)][3]

\* C5: the arc list and the transitions' maps agree: for every transition t
\* and place p, p is a key of t's input map iff the arc list holds some
\* (p, t, w), with the weight of the most recent one, and p is a key of t's
\* output map iff the arc list holds some (t, p, w).
CE_C5_ArcViewsAgree ==
    \A ti \in 1..Len(petri_net.transitions), pi \in 1..Len(petri_net.places) :
        LET t == petri_net.transitions[ti][1]
            tr == petri_net.transitions[ti][2]
            p == petri_net.places[pi][1]
            listed_in == \E a \in Range(petri_net.arcs) : a[1] = p /\ a[2] = t
            listed_out == \E a \in Range(petri_net.arcs) : a[1] = t /\ a[2] = p
        IN  /\ HasKey(tr.input_arcs, p) <=> listed_in
            /\ HasKey(tr.input_arcs, p)
                  => DictGet(tr.input_arcs, p) = LastArcWeight(petri_net.arcs, p, t)
            /\ HasKey(tr.output_arcs, p) <=> listed_out

\* C6: every place's token count is >= 0 in every reachable state, so
\* is_bounded() cannot be made to return false.
CE_C6_TokensNonNegative ==
    /\ \A i \in 1..Len(petri_net.places) : petri_net.places[i][2] >= 0
    /\ is_bounded(petri_net).val

\* C7: every weight stored in the arc list and in the transitions' input
\* and output maps is >= 1.
CE_C7_WeightsPositive ==
    /\ \A i \in 1..Len(petri_net.arcs) : petri_net.arcs[i][3] >= 1
    /\ \A ti \in 1..Len(petri_net.transitions) :
          LET tr == petri_net.transitions[ti][2]
          IN  /\ \A i \in 1..Len(tr.input_arcs) : tr.input_arcs[i][2] >= 1
              /\ \A i \in 1..Len(tr.output_arcs) : tr.output_arcs[i][2] >= 1

(***************************************************************************)
(* Properties of the PetriNet queries (under SpecQuery).                   *)
(***************************************************************************)
\* the token count of place p is at least w
HoldsAtLeast(net, p, w) ==
    \E j \in 1..Len(net.places) : net.places[j][1] = p /\ net.places[j][2] >= w

\* every input arc of transition record tr is covered by the marking
InputsCovered(net, tr) ==
    \A i \in 1..Len(tr.input_arcs) :
        HoldsAtLeast(net, tr.input_arcs[i][1], tr.input_arcs[i][2])

\* C8: is_enabled returns true iff every (place, weight) of the
\* transition's input map has a token count >= weight; with an empty input
\* map it returns true.
Thm_C8_IsEnabledWeightAware ==
    ret.op = "is_enabled" =>
        LET tr == DictGet(petri_net.transitions, ret.arg)
        IN  /\ ret.raised = NoError
            /\ ret.val <=> InputsCovered(petri_net, tr)
            /\ tr.input_arcs = <<>> => ret.val

\* C8 witness: is_enabled answered false for a transition with two input
\* places of which the first holds enough tokens and the second does not.
Wit_C8_SecondInputShort ==
    /\ ret.op = "is_enabled"
    /\ ~ret.val
    /\ LET tr == DictGet(petri_net.transitions, ret.arg)
       IN  /\ Len(tr.input_arcs) = 2
           /\ HoldsAtLeast(petri_net, tr.input_arcs[1][1], tr.input_arcs[1][2])
           /\ HoldsAtLeast(petri_net, tr.input_arcs[2][1], 1)

\* C9: has_live_transitions returns true iff at least one transition is
\* enabled under the weight-aware rule; it returns false for a net with no
\* transitions.
Thm_C9_HasLiveTransitions ==
    ret.op = "has_live_transitions" =>
        /\ ret.raised = NoError
        /\ ret.val <=> \E ti \in 1..Len(petri_net.transitions) :
                          InputsCovered(petri_net, petri_net.transitions[ti][2])
        /\ petri_net.transitions = <<>> => ~ret.val

\* C9 witness: has_live_transitions answered true for a net whose first
\* transition is not enabled and whose second is.
Wit_C9_SecondTransitionLive ==
    /\ ret.op = "has_live_transitions"
    /\ ret.val
    /\ Len(petri_net.transitions) = 2
    /\ ~InputsCovered(petri_net, petri_net.transitions[1][2])

(***************************************************************************)
(* Properties of the PetriNetAnalyzer queries (under SpecAnalyzer).        *)
(***************************************************************************)
\* the token count the marking gives place p: 0 without an entry
TokensOf(an, p) ==
    IF \E j \in 1..Len(an.marking) : an.marking[j][1] = p
    THEN an.marking[CHOOSE j \in 1..Len(an.marking) : an.marking[j][1] = p][2]
    ELSE 0

\* transition t has an input place and an output place, and every input
\* place holds a token
Qualifies(an, t) ==
    /\ \E i \in 1..Len(an.arcs) : an.arcs[i][2] = t
    /\ \E i \in 1..Len(an.arcs) : an.arcs[i][1] = t
    /\ \A i \in 1..Len(an.arcs) : an.arcs[i][2] = t => TokensOf(an, an.arcs[i][1]) > 0

\* C10: analyze_liveness returns (qualifying transitions) / (transitions),
\* a value in [0, 1]; 0.0 for a net without transitions, and 0.5 for two
\* transitions of which exactly one qualifies.  The float is held as the
\* fraction <<numerator, denominator>> in lowest terms.
Thm_C10_AnalyzeLiveness ==
    ret.op = "analyze_liveness" =>
        LET T == analyzer.transitions
            Q == {t \in T : Qualifies(analyzer, t)}
            num == ret.val[1]
            den == ret.val[2]
        IN  /\ den > 0
            /\ T # {} => num * Cardinality(T) = Cardinality(Q) * den
            /\ 0 <= num /\ num <= den
            /\ T = {} => ret.val = <<0, 1>>
            /\ (Cardinality(T) = 2 /\ Cardinality(Q) = 1) => ret.val = <<1, 2>>

\* C10 witness: analyze_liveness answered 0.5 for two transitions of which
\* one qualifies.
Wit_C10_HalfLive ==
    /\ ret.op = "analyze_liveness"
    /\ ret.val = <<1, 2>>
    /\ Cardinality(analyzer.transitions) = 2
    /\ Cardinality({t \in analyzer.transitions : Qualifies(analyzer, t)}) = 1

\* the transitions with at least one input arc all of whose input places
\* hold a token
EnabledSet(an) ==
    {t \in an.transitions :
        /\ \E i \in 1..Len(an.arcs) : an.arcs[i][2] = t
        /\ \A i \in 1..Len(an.arcs) :
              an.arcs[i][2] = t => TokensOf(an, an.arcs[i][1]) > 0}

\* the analyzer holds the network of the end-to-end scenario
HoldsScenario(an) ==
    /\ an.places = {"p1", "p2", "p3"}
    /\ an.transitions = {"t1", "t2"}
    /\ an.arcs = << <<"p1", "t1">>, <<"t1", "p2">>, <<"p2", "t2">> >>
    /\ an.marking = << <<"p1", 1>>, <<"p2", 0>>, <<"p3", 2>> >>

\* C11: get_enabled_transitions returns exactly the transitions that have
\* an input place and all of whose input places hold > 0 tokens, each once;
\* for the scenario network the result is [t1].
Thm_C11_GetEnabledTransitions ==
    ret.op = "get_enabled_transitions" =>
        /\ Range(ret.val) = EnabledSet(analyzer)
        /\ Len(ret.val) = Cardinality(EnabledSet(analyzer))
        /\ HoldsScenario(analyzer) => ret.val = <<"t1">>

\* C11 witness: get_enabled_transitions answered [t1] on the scenario
\* network.
Wit_C11_ScenarioEnabled ==
    /\ ret.op = "get_enabled_transitions"
    /\ HoldsScenario(analyzer)
    /\ ret.val = <<"t1">>

(***************************************************************************)
(* Properties of load_network (under SpecLoad).                            *)
(***************************************************************************)
\* C12: a load_network call that fails leaves the analyzer as it was:
\* places, transitions, arcs, marking and graph.
CE_C12_FailedLoadKeepsState ==
    [][(ret'.op = "load_network" /\ ret'.raised # NoError)
          => analyzer' = analyzer]_vars

\* the nodes the arguments declare
DeclaredNodes(n) == Range(n[1]) \cup Range(n[2])

\* positions of the arcs with an undeclared endpoint, of the marking
\* entries that name no declared place, and of the marking entries whose
\* value is no integer
BadArcs(n) ==
    {i \in 1..Len(n[3]) : \/ Strip(n[3][i][1]) \notin DeclaredNodes(n)
                            \/ Strip(n[3][i][2]) \notin DeclaredNodes(n)}
BadMarkingKeys(n) == {i \in 1..Len(n[4]) : Strip(n[4][i][1]) \notin Range(n[1])}
BadMarkingValues(n) == {i \in 1..Len(n[4]) : ~IsIntLiteral(n[4][i][2])}

\* the least element of a non-empty set of positions
First(S) == CHOOSE i \in S : \A j \in S : i <= j

\* C13 as stated: load_network fails iff some arc has an undeclared
\* endpoint or some marking entry names no declared place; otherwise it
\* succeeds.
CE_C13_FailsIffUndeclared ==
    ret.op = "load_network" =>
        (ret.raised # NoError
            <=> (BadArcs(ret.arg) # {} \/ BadMarkingKeys(ret.arg) # {}))

\* what load_network reports for arguments n
ExpectedLoadError(n) ==
    IF BadMarkingValues(n) # {}
    THEN <<"ValueError", "invalid literal for int()", n[4][First(BadMarkingValues(n))][2]>>
    ELSE IF BadArcs(n) # {}
    THEN LET a == n[3][First(BadArcs(n))]
         IN  IF Strip(a[1]) \notin DeclaredNodes(n)
             THEN <<"ValueError", "Invalid source node in arc", Strip(a[1])>>
             ELSE <<"ValueError", "Invalid destination node in arc", Strip(a[2])>>
    ELSE IF BadMarkingKeys(n) # {}
    THEN <<"ValueError", "Marking specified for non-existent place",
           Strip(n[4][First(BadMarkingKeys(n))][1])>>
    ELSE NoError

\* C13 amended: load_network fails iff some marking value is no integer,
\* or some arc has an undeclared endpoint, or some marking entry names no
\* declared place; the values are converted first, then the arcs are
\* checked in list order (source before destination), then the marking
\* entries, and the first violation in that order is the one reported.
Thm_C13_LoadErrorOrder ==
    ret.op = "load_network" => ret.raised = ExpectedLoadError(ret.arg)

\* C13 witness: a load that reported the undeclared source of its second
\* arc, although a marking entry named an undeclared place as well.
Wit_C13_ArcBeforeMarking ==
    /\ ret.op = "load_network"
    /\ ret.raised = <<"ValueError", "Invalid source node in arc", "q">>
    /\ Len(analyzer.arcs) = 3
    /\ \E i \in 1..Len(analyzer.marking) : analyzer.marking[i][1] \notin analyzer.places

(***************************************************************************)
(* Properties of generate_network (under SpecApp).                         *)
(***************************************************************************)
\* the fields follow the documented grammar: every Markings segment is
\* name=integer, every Arcs segment is source->target
FollowsGrammar(fields) ==
    /\ \A i \in 1..Len(fields[4]) :
          Len(fields[4][i]) = 2 /\ IsIntLiteral(fields[4][i][2])
    /\ \A i \in 1..Len(fields[3]) : Len(fields[3][i]) = 2

\* C18: when the Markings field holds name=integer entries separated by a
\* comma and an optional blank, every declared place an entry names holds
\* that entry's integer, and the declared places without entry hold 0.
CE_C18_MarkingGrammarHonoured ==
    (ret.op = "generate_network" /\ FollowsGrammar(ret.arg)) =>
        /\ ret.raised = NoError
        /\ \A k \in 1..Len(ret.arg[1]) :
              LET name == Strip(ret.arg[1][k])
                  entries == {i \in 1..Len(ret.arg[4]) : Strip(ret.arg[4][i][1]) = name}
              IN  /\ HasKey(petri_net.places, name)
                  /\ \A i \in entries :
                        DictGet(petri_net.places, name) = int(ret.arg[4][i][2])
                  /\ entries = {} => DictGet(petri_net.places, name) = 0

\* C19: a generate_network that fails leaves the application with the net
\* it had, or with an empty one, never with the part built before the error.
CE_C19_NoPartialNet ==
    [][(ret'.op = "generate_network" /\ ret'.raised # NoError)
          => (petri_net' = petri_net \/ petri_net' = NewPetriNet)]_vars

(***************************************************************************)
(* Order of the results of get_enabled_transitions (under SpecAnalyzer).   *)
(***************************************************************************)
\* C17: for a fixed net get_enabled_transitions returns one sequence: the
\* sequence returned is the one every iteration order of the transition
\* set, that of any other run included, yields.
CE_C17_DeterministicOrder ==
    ret.op = "get_enabled_transitions" =>
        \A order \in IterationOrders(analyzer.transitions) :
            get_enabled_transitions(analyzer, order) = ret.val

(***************************************************************************)
(* The arc list of a PetriNet (under SpecQuery).                           *)
(***************************************************************************)
\* C20: every add_arc(source, target, w) appends exactly the triple
\* (source, target, w) at the end of the arc list, whatever the kinds of
\* its endpoints; no call changes the list otherwise, so the arcs added
\* earlier stay an unchanged prefix.
Thm_C20_ArcListAppendOnly ==
    [][/\ \A source \in Names, target \in Names, weight \in QueryWeightVals :
             AddArc(source, target, weight)
                 => petri_net'.arcs = Append(petri_net.arcs, <<source, target, weight>>)
       /\ Len(petri_net'.arcs) >= Len(petri_net.arcs)
       /\ SubSeq(petri_net'.arcs, 1, Len(petri_net.arcs)) = petri_net.arcs
       /\ Len(petri_net'.arcs) <= Len(petri_net.arcs) + 1]_vars

\* C20 witness: an arc list that holds, in the order of the calls, a
\* place -> place arc and then an arc between names declared nowhere.
Wit_C20_InvalidArcsKept ==
    /\ Len(petri_net.arcs) = 2
    /\ PlaceOnly(petri_net, petri_net.arcs[1][1])
    /\ PlaceOnly(petri_net, petri_net.arcs[1][2])
    /\ ~HasKey(petri_net.places, petri_net.arcs[2][1])
    /\ ~HasKey(petri_net.transitions, petri_net.arcs[2][1])
    /\ ~HasKey(petri_net.places, petri_net.arcs[2][2])
    /\ ~HasKey(petri_net.transitions, petri_net.arcs[2][2])

(***************************************************************************)
(* The enabling rules of the two components compared (under SpecBoth).     *)
(***************************************************************************)
\* the PetriNet and the analyzer hold the same net: the same places with
\* the same non-negative token counts, the same transitions, the same arcs
\* in the same order, every arc of weight 1 and between a place and a
\* transition
SameNet(net, an) ==
    /\ DictKeys(net.places) = an.places
    /\ DictKeys(net.transitions) = an.transitions
    /\ an.places \cap an.transitions = {}
    /\ \A p \in an.places :
          DictGet(net.places, p) = TokensOf(an, p) /\ TokensOf(an, p) >= 0
    /\ Len(net.arcs) = Len(an.arcs)
    /\ \A i \in 1..Len(an.arcs) :
          /\ net.arcs[i] = <<an.arcs[i][1], an.arcs[i][2], 1>>
          /\ \/ an.arcs[i][1] \in an.places /\ an.arcs[i][2] \in an.transitions
             \/ an.arcs[i][1] \in an.transitions /\ an.arcs[i][2] \in an.places

\* transition t of the PetriNet has an input arc
HasInputArc(net, t) == DictGet(net.transitions, t).input_arcs # <<>>

\* the net of the claim: p1, p2, t1, p1 -> t1, t1 -> p2, with k tokens in p1
HoldsProducerNet(an, k) ==
    /\ an.places = {"p1", "p2"}
    /\ an.transitions = {"t1"}
    /\ an.arcs = << <<"p1", "t1">>, <<"t1", "p2">> >>
    /\ TokensOf(an, "p1") = k

\* C14: when both components hold the same bipartite net with unit weights
\* and a non-negative marking, is_enabled(t) and membership of t in
\* get_enabled_transitions() agree on every transition t with an input
\* arc; for p1 -> t1 -> p2 both are true with one token in p1 and both
\* false with none.
Thm_C14_EnablingRulesAgree ==
    SameNet(petri_net, analyzer) =>
        /\ (ret.op = "is_enabled" /\ HasInputArc(petri_net, ret.arg)) =>
              /\ ret.raised = NoError
              /\ \A order \in IterationOrders(analyzer.transitions) :
                    ret.val <=> ret.arg \in Range(get_enabled_transitions(analyzer, order))
              /\ HoldsProducerNet(analyzer, 1) => ret.val = TRUE
              /\ HoldsProducerNet(analyzer, 0) => ret.val = FALSE
        /\ ret.op = "get_enabled_transitions" =>
              /\ \A t \in analyzer.transitions :
                    HasInputArc(petri_net, t) =>
                        (t \in Range(ret.val)
                            <=> is_enabled(DictGet(petri_net.transitions, t),
                                           petri_net.places).val)
              /\ HoldsProducerNet(analyzer, 1) => ret.val = <<"t1">>
              /\ HoldsProducerNet(analyzer, 0) => ret.val = <<>>

\* C14 witness: both components hold p1 -> t1 -> p2 with one token in p1,
\* and is_enabled(t1) has answered true.
Wit_C14_ProducerEnabled ==
    /\ SameNet(petri_net, analyzer)
    /\ HoldsProducerNet(analyzer, 1)
    /\ ret.op = "is_enabled" /\ ret.arg = "t1" /\ ret.val = TRUE

\* the transitions of the analyzer's net with an incoming arc
WithInput(an) == {t \in an.transitions : \E i \in 1..Len(an.arcs) : an.arcs[i][2] = t}

\* C15: a transition without input arcs is enabled for is_enabled and
\* makes has_live_transitions true, whatever the marking; it is never
\* listed by get_enabled_transitions and never counted by
\* analyze_liveness, whatever its output arcs and the marking.
Thm_C15_EnablingLivenessAsymmetry ==
    /\ (ret.op = "is_enabled" /\ ~HasInputArc(petri_net, ret.arg)) =>
          ret.raised = NoError /\ ret.val = TRUE
    /\ (/\ ret.op = "has_live_transitions"
        /\ \E t \in DictKeys(petri_net.transitions) : ~HasInputArc(petri_net, t)) =>
          ret.raised = NoError /\ ret.val = TRUE
    /\ ret.op = "get_enabled_transitions" => Range(ret.val) \subseteq WithInput(analyzer)
    /\ ret.op = "analyze_liveness" =>
          /\ ret.val[1] * Cardinality(analyzer.transitions)
                <= ret.val[2] * Cardinality(WithInput(analyzer))
          /\ WithInput(analyzer) = {} => ret.val = float_zero

\* C15 witness: t2 has an output arc and no input arc; is_enabled(t2) has
\* answered true on the PetriNet while the analyzer holding the same net
\* has t2 and an incoming-arc set that leaves it out.
Wit_C15_SourceTransition ==
    /\ SameNet(petri_net, analyzer)
    /\ ret.op = "is_enabled" /\ ret.arg = "t2" /\ ret.val = TRUE
    /\ DictGet(petri_net.transitions, "t2").input_arcs = <<>>
    /\ DictGet(petri_net.transitions, "t2").output_arcs # <<>>
    /\ "t2" \in analyzer.transitions \ WithInput(analyzer)

(***************************************************************************)
(* The queries of both programs (under SpecPrograms).                      *)
(***************************************************************************)
\* every key of every transition's input map is a key of the places map
InputKeysArePlaces(net) ==
    \A i \in 1..Len(net.transitions) :
        \A j \in 1..Len(net.transitions[i][2].input_arcs) :
            HasKey(net.places, net.transitions[i][2].input_arcs[j][1])

\* C16: after any sequence of add_place / add_transition / add_arc calls
\* every input-map key is a place, and is_bounded, has_live_transitions
\* (and is_enabled of a transition) return a boolean without raising and
\* leave the net as it was; analyze_boundedness, analyze_liveness and
\* get_enabled_transitions do not raise and leave the analyzer as it was.
Thm_C16_QueriesPure ==
    [][/\ InputKeysArePlaces(petri_net')
       /\ ret'.op \in {"is_bounded", "has_live_transitions", "is_enabled"} =>
             /\ ret'.raised = NoError
             /\ ret'.val \in BOOLEAN
             /\ petri_net' = petri_net
       /\ ret'.op \in {"analyze_boundedness", "analyze_liveness",
                        "get_enabled_transitions"} =>
             /\ ret'.raised = NoError
             /\ analyzer' = analyzer]_vars

\* C16 witness: has_live_transitions has answered on a net whose arc list
\* holds an arc into a transition from a name that is no place.
Wit_C16_QueryAfterOddArc ==
    /\ ret.op = "has_live_transitions"
    /\ ret.raised = NoError
    /\ \E i \in 1..Len(petri_net.arcs) :
          /\ ~HasKey(petri_net.places, petri_net.arcs[i][1])
          /\ HasKey(petri_net.transitions, petri_net.arcs[i][2])

(***************************************************************************)
(* Liveness against enabling in the analyzer (under SpecAnalyzer).         *)
(***************************************************************************)
\* C24: every transition analyze_liveness counts is returned by
\* get_enabled_transitions: the live count never exceeds the number of
\* enabled transitions, and a liveness above 0 comes with a non-empty
\* list of enabled transitions.
Thm_C24_LiveImpliesEnabled ==
    /\ ret.op = "analyze_liveness" =>
          \A order \in IterationOrders(analyzer.transitions) :
              LET enabled == get_enabled_transitions(analyzer, order)
              IN  /\ live_count(analyzer.transitions, analyzer) <= Len(enabled)
                  /\ ret.val[1] > 0 => enabled # <<>>
                  /\ ret.val[1] * Cardinality(analyzer.transitions)
                        <= Len(enabled) * ret.val[2]
    /\ ret.op = "get_enabled_transitions" =>
          /\ {t \in analyzer.transitions : Qualifies(analyzer, t)} \subseteq Range(ret.val)
          /\ live_count(analyzer.transitions, analyzer) <= Len(ret.val)
          /\ analyze_liveness(analyzer)[1] > 0 => ret.val # <<>>

\* C24 witness: get_enabled_transitions has returned the one transition
\* that analyze_liveness counts, in a net of two transitions.
Wit_C24_LiveIsEnabled ==
    /\ ret.op = "get_enabled_transitions"
    /\ ret.val = <<"t1">>
    /\ Qualifies(analyzer, "t1")
    /\ analyze_liveness(analyzer) = <<1, 2>>

(***************************************************************************)
(* Properties of load_net_file (under SpecFile).                           *)
(***************************************************************************)
\* the 4th token of a line as a number, or d when the line has no 4th token
FourthOr(parts, d) == IF Len(parts) > 3 THEN int(parts[4]) ELSE d

\* the net after the first k lines of a file are applied to an empty net:
\* add_place for a PLACE line, add_transition for a TRANSITION line,
\* add_arc for an ARC line, nothing for any other line
RECURSIVE NetAfter(_, _)
NetAfter(lines, k) ==
    IF k = 0 THEN NewPetriNet
    ELSE LET before == NetAfter(lines, k - 1)
             parts == lines[k]
             head == IF parts = <<>> THEN "" ELSE parts[1]
         IN  CASE head = "PLACE" -> add_place(before, parts[2], FourthOr(parts, 0))
               [] head = "TRANSITION" -> add_transition(before, parts[2])
               [] head = "ARC" -> add_arc(before, parts[2], parts[3], FourthOr(parts, 1))
               [] OTHER -> before

\* C21: a file that loads yields the net obtained by applying, in line
\* order to an empty net, add_place(name, 4th token or 0) per PLACE line,
\* add_transition(name) per TRANSITION line and add_arc(src, dst, 4th
\* token or 1) per ARC line; blank lines and other lines change nothing.
Thm_C21_LoadNetFileReplaysLines ==
    (ret.op = "load_net_file" /\ ret.val /\ ret.raised = NoError) =>
        petri_net = NetAfter(ret.arg, Len(ret.arg))

\* C21 witness: a loaded file with a PLACE line of four tokens, one of two
\* tokens, a blank line and ARC lines without weight.
Wit_C21_WholeFileLoaded ==
    /\ ret.op = "load_net_file" /\ ret.val /\ ret.raised = NoError
    /\ Len(ret.arg) = 6 /\ ret.arg[3] = <<>>
    /\ petri_net.places = << <<"p1", 1>>, <<"p2", 0>> >>
    /\ petri_net.arcs = << <<"p1", "t1", 1>>, <<"t1", "p2", 1>> >>

(***************************************************************************)
(* Reset and rebuild (under SpecApp).                                      *)
(***************************************************************************)
\* net has no places, no transitions and no arcs
IsEmptyNet(net) == net.places = <<>> /\ net.transitions = <<>> /\ net.arcs = <<>>

\* net holds exactly the places, the transitions and the arcs the fields
\* name, the arcs in the order of the field and with the default weight
HoldsFields(net, fields) ==
    /\ DictKeys(net.places) = {Strip(fields[1][i]) : i \in 1..Len(fields[1])}
    /\ DictKeys(net.transitions) = {Strip(fields[2][i]) : i \in 1..Len(fields[2])}
    /\ net.arcs = [i \in 1..Len(fields[3]) |->
                      <<Strip(fields[3][i][1]), Strip(fields[3][i][2]), 1>>]

\* C22: a reset (confirmed, where it asks) leaves a net without places,
\* transitions and arcs, a declined reset leaves the net as it was; a
\* generate_network that succeeds leaves exactly the places, transitions
\* and arcs of the fields, whatever the net held before, and generating
\* again from the same fields changes nothing.
Thm_C22_ResetAndRebuild ==
    [][/\ (ret'.op = "reset_model" /\ ret'.val) => IsEmptyNet(petri_net')
       /\ (ret'.op = "reset_model" /\ ~ret'.val) => petri_net' = petri_net
       /\ ResetModel => IsEmptyNet(petri_net')
       /\ (ret'.op = "generate_network" /\ ret'.raised = NoError) =>
             /\ HoldsFields(petri_net', ret'.arg)
             /\ (ret.op = "generate_network" /\ ret.raised = NoError
                    /\ ret.arg = ret'.arg) => petri_net' = petri_net]_vars

\* C22 witness: a reset was declined and the net generated before, with
\* its two arcs, is still held.
Wit_C22_DeclinedResetKeepsNet ==
    /\ ret.op = "reset_model" /\ ~ret.val
    /\ Len(petri_net.arcs) = 2
    /\ HoldsFields(petri_net, form)

(***************************************************************************)
(* The round trip through the form (under SpecFile).                       *)
(***************************************************************************)
\* C23: after a load_net_file that succeeded, generate_network from the
\* fields as the load left them rebuilds the same place names and token
\* counts, the same transition names and the same arc triples in the
\* same order.
CE_C23_FormRoundTrip ==
    [][(/\ ret.op = "load_net_file" /\ ret.val /\ ret.raised = NoError
        /\ ret'.op = "generate_network" /\ ret'.arg = form)
          => /\ ret'.raised = NoError
             /\ Range(petri_net'.places) = Range(petri_net.places)
             /\ DictKeys(petri_net'.transitions) = DictKeys(petri_net.transitions)
             /\ petri_net'.arcs = petri_net.arcs]_vars

====
